---- MODULE Spec2Model ----
(***************************************************************************)
(* Model of src/src/tools/catalog.js: HistoryVisitFinder (getVisitsData,   *)
(* searchVisits, the noise filter) and HistoryVisitStreamer (getNext, the  *)
(* cursor), run against a nondeterministic browser.history provider.       *)
(*                                                                         *)
(* One getNext call is in flight at a time.  Every await of the code is a  *)
(* point where the model waits for the provider; the code between two      *)
(* awaits runs to completion and is one action.                            *)
(*                                                                         *)
(* Three more specifications share the variables: SpecFilter applies the   *)
(* noise filter to lists of visit records, SpecRateLimited runs the        *)
(* RateLimited wrapper against a clock, and SpecCatalog runs               *)
(* HistoryCatalog, whose scroll handler calls getNext through the wrapper. *)
(***************************************************************************)
EXTENDS Integers, Sequences, FiniteSets, TLC

VARIABLES
  history,          \* the provider's visits: a set of [url, visitTime, transition]
  startDatetime,    \* HistoryVisitStreamer argument
  endDatetime,      \* HistoryVisitStreamer argument
  defaultMaxVisits, \* HistoryVisitStreamer argument
  cursorDatetime,   \* streamer state
  reachedEnd,       \* streamer state
  pc,               \* where the getNext call in flight is waiting
  maxVisits,        \* searchVisits: the requested page size
  storedVisits,     \* searchVisits: accumulated raw visits
  query,            \* getVisitsData: the query sent to history.search
  historyItemArray, \* getVisitsData: urls returned by history.search
  fetchState,       \* getVisitsData: per url, how history.getVisits ended
  dueState,         \* getVisitsData: per url, the state of its duePromise
  visitArray,       \* getVisitsData: visits collected by the then callbacks
  visitsData,       \* what the last getVisitsData call returned
  visitItems,       \* getNext: what the last searchVisits call returned
  pages,            \* the non-null pages getNext has returned, in call order
  lastResult,       \* outcome of the last getNext call
  filterConfig,     \* processVisitsData argument
  filterInput,      \* processVisitsData argument: the visit records
  filterOnce,       \* the records the filter keeps of filterInput
  filterTwice,      \* the records the filter keeps of filterOnce
  entries,          \* what processVisitsData returns for filterInput
  msRateLimit,      \* RateLimited argument
  limitedCallback,  \* RateLimited argument: is it a function?
  startLimited,     \* RateLimited argument
  limited,          \* RateLimited state
  timers,           \* due times of the pending setTimeout(reset) timers
  now,              \* the clock, in ms
  calls,            \* what the wrapper and its timer ran, and when
  inFlight          \* HistoryCatalog: the cursor each pending getNext read

vars == <<history, startDatetime, endDatetime, defaultMaxVisits,
          cursorDatetime, reachedEnd, pc, maxVisits, storedVisits, query,
          historyItemArray, fetchState, dueState, visitArray, visitsData,
          visitItems, pages, lastResult, filterConfig, filterInput,
          filterOnce, filterTwice, entries, msRateLimit, limitedCallback,
          startLimited, limited, timers, now, calls, inFlight>>

filterVars == <<filterConfig, filterInput, filterOnce, filterTwice, entries>>
rateVars == <<msRateLimit, limitedCallback, startLimited, limited, timers,
              now, calls>>
\* what the streamer and the finder never touch
notStreamer == <<filterVars, rateVars, inFlight>>

config == <<history, startDatetime, endDatetime, defaultMaxVisits>>
streamer == <<cursorDatetime, reachedEnd>>
gvdLocals == <<historyItemArray, fetchState, dueState, visitArray>>

----------------------------------------------------------------------------
(* Bounds *)

MaxTime == 3        \* visit times are 1..MaxTime
MaxHistory == 2     \* at most this many visits in the provider's history
MaxPageSize == 2    \* defaultMaxVisits is 1..MaxPageSize

----------------------------------------------------------------------------
(* Values *)

\* A url is kept as the two groups of urlSplitProtocolRest.
Url(protocol, rest) == [protocol |-> protocol, rest |-> rest]

UrlXa == Url("http://", "x.com/a")
UrlYp == Url("http://", "y.com/p")
UrlYps == Url("https://", "y.com/p")
Urls == {UrlXa, UrlYp, UrlYps}

Transitions == {"link", "reload"}

\* HistoryItem.title of a page
TitleOf(url) == IF url.rest = "x.com/a" THEN "A" ELSE "P"

\* A Date object holds epoch milliseconds.
NewDate(ms) == [time |-> ms]
getTime(date) == date.time

Null == [kind |-> "null", value |-> <<>>]
Value(v) == [kind |-> "value", value |-> v]
Thrown(what) == [kind |-> "throw", value |-> <<what>>]
NotCalled == [kind |-> "none", value |-> <<>>]

maxResultsCeiling == 2^30   \* stands for 2^52, above every page size
defaultStartDatetime == NewDate(0)
defaultFilterConfig ==
  [excludeProtocolChange |-> TRUE, excludeReloadTransition |-> TRUE]

\* the whole URL, protocol included
getUrlWithProtocol(url) == url

getUrlAfterProtocol(url) == url.rest

----------------------------------------------------------------------------
(* Sequences *)

RECURSIVE InsertDesc(_, _)
\* insert v after every element whose datetime is not smaller (stable)
InsertDesc(sorted, v) ==
  IF sorted = <<>> THEN <<v>>
  ELSE IF Head(sorted).datetime >= v.datetime
       THEN <<Head(sorted)>> \o InsertDesc(Tail(sorted), v)
       ELSE <<v>> \o sorted

RECURSIVE SortDesc(_)
\* visitArray.sort((a, b) => b.datetime - a.datetime), a stable sort
SortDesc(array) ==
  IF array = <<>> THEN <<>>
  ELSE InsertDesc(SortDesc(SubSeq(array, 1, Len(array) - 1)),
                  array[Len(array)])

\* array.slice(0, n)
Slice(array, n) == SubSeq(array, 1, IF n < Len(array) THEN n ELSE Len(array))

RECURSIVE SetToSeqAsc(_)
\* the visits of one url as the provider lists them, oldest first
SetToSeqAsc(S) ==
  IF S = {} THEN <<>>
  ELSE LET m == CHOOSE v \in S : \A w \in S : v.visitTime <= w.visitTime
       IN <<m>> \o SetToSeqAsc(S \ {m})

Range(s) == {s[i] : i \in 1..Len(s)}

Min(a, b) == IF a < b THEN a ELSE b

----------------------------------------------------------------------------
(* The provider: browser.history *)

VisitsOf(url) == {v \in history : v.url = url}

\* visitInDateRange of getVisitsData
\* as visitInDateRange, without the test against the end of the window
visitInDateRangeNoEnd(visit, q) ==
  visit.visitTime >= q.startTime

visitInDateRange(visit, q) ==
  visit.visitTime <= q.endTime /\ visit.visitTime >= q.startTime

\* the provider matches a page that has a visit in the queried time range
MatchingPages(q) ==
  {url \in Urls : \E v \in VisitsOf(url) :
     v.visitTime >= q.startTime /\ v.visitTime <= q.endTime}

\* history.search answers with maxResults matching pages, or with all of
\* them when there are fewer; which ones it picks is up to the provider.
SearchResults(q) ==
  LET matching == MatchingPages(q)
      n == Min(q.maxResults, Cardinality(matching))
  IN {items \in SUBSET matching : Cardinality(items) = n}

----------------------------------------------------------------------------
(* HistoryVisitFinder *)

combineVisitProperties(visit) ==
  [url |-> visit.url, title |-> TitleOf(visit.url),
   datetime |-> visit.visitTime, id |-> <<visit.url, visit.visitTime>>,
   transition |-> visit.transition]

RECURSIVE MapCombineInRange(_, _)
\* visitItemArray.filter(visitInDateRange).map(combineVisitProperties)
MapCombineInRange(visitItemArray, q) ==
  IF visitItemArray = <<>> THEN <<>>
  ELSE (IF visitInDateRange(Head(visitItemArray), q)
        THEN <<combineVisitProperties(Head(visitItemArray))>> ELSE <<>>)
       \o MapCombineInRange(Tail(visitItemArray), q)

\* what the then callback of one history.getVisits pushes
ThenPush(url, q) == MapCombineInRange(SetToSeqAsc(VisitsOf(url)), q)

\* a duePromise without its catch callback stays rejected
CatchOutcomeUncaught == "rejected"

\* state of a duePromise whose history.getVisits rejected: catch handles it
CatchOutcome == "fulfilled"

\* the callback of Promise.all: sort, then cap unless everything was asked
SortAndCap(array, mv) ==
  LET sorted == SortDesc(array)
  IN IF mv # maxResultsCeiling THEN Slice(sorted, mv) ELSE sorted

\* the function returned by getVisitFilterFn; index is 1-based here
\* as visitFilterFn, without the protocol-change test
visitFilterFnNoProtocolCheck(cfg, value, index, array) ==
  IF index > 1
  THEN TRUE
  ELSE ~(cfg.excludeReloadTransition
         /\ value.transition = "reload")

\* as visitFilterFn, excluding a first reload whatever the configuration says
visitFilterFnAlwaysExcludesReload(cfg, value, index, array) ==
  IF index > 1
  THEN ~(cfg.excludeProtocolChange
         /\ getUrlAfterProtocol(value.url)
              = getUrlAfterProtocol(array[index - 1].url))
  ELSE ~(value.transition = "reload")

\* as visitFilterFn, comparing with the previous element only when that
\* element was kept
visitFilterFnAgainstSurvivor(cfg, value, index, array) ==
  IF index > 1
  THEN ~(cfg.excludeProtocolChange
         /\ getUrlAfterProtocol(value.url)
              = getUrlAfterProtocol(array[index - 1].url)
         /\ ~(index = 2 /\ cfg.excludeReloadTransition
                /\ array[1].transition = "reload"))
  ELSE ~(cfg.excludeReloadTransition
         /\ value.transition = "reload")

visitFilterFn(cfg, value, index, array) ==
  IF index > 1
  THEN ~(cfg.excludeProtocolChange
         /\ getUrlAfterProtocol(value.url)
              = getUrlAfterProtocol(array[index - 1].url))
  ELSE ~(cfg.excludeReloadTransition
         /\ value.transition = "reload")

visitMapFn(value) ==
  [url |-> value.url, title |-> value.title,
   datetime |-> NewDate(value.datetime)]

RECURSIVE FilterFrom(_, _, _)
\* visitsData.filter(filterFn), from the 1-based index on
FilterFrom(array, index, cfg) ==
  IF index > Len(array) THEN <<>>
  ELSE (IF visitFilterFn(cfg, array[index], index, array)
        THEN <<array[index]>> ELSE <<>>)
       \o FilterFrom(array, index + 1, cfg)

\* visitsData.filter(filterFn)
FilterVisits(array, cfg) == FilterFrom(array, 1, cfg)

\* array.map(visitMapFn)
MapVisits(array) == [i \in 1..Len(array) |-> visitMapFn(array[i])]

processVisitsData(array, cfg) == MapVisits(FilterVisits(array, cfg))

----------------------------------------------------------------------------
(* HistoryVisitStreamer *)

\* updateCursorDatetime: the new cursor
CursorAfter(visits) == NewDate(getTime(visits[Len(visits)].datetime) - 1)

\* the rest of getNext once searchVisits has returned visitItems
GetNextReturns(items) ==
  /\ pc' = "idle"
  /\ visitItems' = items
  /\ IF items.kind = "null"
     THEN \* visitItems.length of null throws a TypeError
          /\ lastResult' = Thrown("TypeError")
          /\ UNCHANGED <<streamer, pages>>
     ELSE IF Len(items.value) > 0
     THEN /\ cursorDatetime' = CursorAfter(items.value)
          /\ reachedEnd' =
               (getTime(cursorDatetime') < getTime(startDatetime))
          /\ pages' = Append(pages, items.value)
          /\ lastResult' = items
     ELSE /\ reachedEnd' = TRUE
          /\ lastResult' = Null
          /\ UNCHANGED <<cursorDatetime, pages>>

\* getVisitsData up to its first await: build the query, call history.search
CallGetVisitsData(mv) ==
  /\ query' = [startTime |-> getTime(defaultStartDatetime),
               endTime |-> getTime(cursorDatetime),
               maxResults |-> mv]
  /\ pc' = "search"

\* the head of the while loop of searchVisits
SearchVisitsLoop(stored) ==
  IF Len(stored) < maxVisits'
  THEN /\ CallGetVisitsData(maxVisits' - Len(stored))
       /\ UNCHANGED <<streamer, visitItems, pages, lastResult>>
  ELSE /\ GetNextReturns(Value(processVisitsData(stored, defaultFilterConfig)))
       /\ UNCHANGED query

\* getNext without its early return: an exhausted stream is queried again
GetNextExhaustedQueriesAgain ==
  /\ UNCHANGED notStreamer
  /\ pc = "idle"
  /\ reachedEnd
  /\ maxVisits' = defaultMaxVisits
  /\ storedVisits' = <<>>
  /\ SearchVisitsLoop(<<>>)
  /\ UNCHANGED <<config, gvdLocals, visitsData>>

\* getNext in EXHAUSTED
GetNextExhausted ==
  /\ UNCHANGED notStreamer
  /\ pc = "idle"
  /\ reachedEnd
  /\ lastResult' = Null
  /\ UNCHANGED <<config, streamer, pc, maxVisits, storedVisits, query,
                 gvdLocals, visitsData, visitItems, pages>>

\* getNext in ACTIVE, up to the first await inside getVisitsData
GetNextCall ==
  /\ UNCHANGED notStreamer
  /\ pc = "idle"
  /\ ~reachedEnd
  /\ maxVisits' = defaultMaxVisits
  /\ storedVisits' = <<>>
  /\ SearchVisitsLoop(<<>>)
  /\ UNCHANGED <<config, gvdLocals, visitsData>>

\* history.search resolves with no page: getVisitsData returns null
SearchFindsNothing ==
  /\ UNCHANGED notStreamer
  /\ pc = "search"
  /\ {} \in SearchResults(query)
  /\ visitsData' = Null
  /\ IF Len(storedVisits) <= 0
     THEN GetNextReturns(Null)
     ELSE GetNextReturns(
            Value(processVisitsData(storedVisits, defaultFilterConfig)))
  /\ UNCHANGED <<config, maxVisits, storedVisits, query, gvdLocals>>

\* history.search resolves with pages: one history.getVisits per page
SearchFindsPages ==
  /\ UNCHANGED notStreamer
  /\ pc = "search"
  /\ \E items \in SearchResults(query) :
       /\ items # {}
       /\ historyItemArray' = items
       /\ fetchState' = [url \in items |-> "pending"]
       /\ dueState' = [url \in items |-> "pending"]
  /\ visitArray' = <<>>
  /\ pc' = "getVisits"
  /\ UNCHANGED <<config, streamer, maxVisits, storedVisits, query,
                 visitsData, visitItems, pages, lastResult>>

\* history.getVisits of one page resolves: the then callback pushes
GetVisitsResolves(url) ==
  /\ UNCHANGED notStreamer
  /\ pc = "getVisits"
  /\ url \in historyItemArray
  /\ fetchState[url] = "pending"
  /\ fetchState' = [fetchState EXCEPT ![url] = "resolved"]
  /\ visitArray' = visitArray \o ThenPush(url, query)
  /\ dueState' = [dueState EXCEPT ![url] = "fulfilled"]
  /\ UNCHANGED <<config, streamer, pc, maxVisits, storedVisits, query,
                 historyItemArray, visitsData, visitItems, pages,
                 lastResult>>

\* history.getVisits of one page rejects: the catch callback warns
GetVisitsRejects(url) ==
  /\ UNCHANGED notStreamer
  /\ pc = "getVisits"
  /\ url \in historyItemArray
  /\ fetchState[url] = "pending"
  /\ fetchState' = [fetchState EXCEPT ![url] = "rejected"]
  /\ dueState' = [dueState EXCEPT ![url] = CatchOutcome]
  /\ UNCHANGED <<config, streamer, pc, maxVisits, storedVisits, query,
                 historyItemArray, visitArray, visitsData, visitItems,
                 pages, lastResult>>

\* Promise.all settles.  It rejects as soon as one duePromise is rejected,
\* and the rejection leaves getVisitsData, searchVisits and getNext.  It
\* fulfils once every duePromise is fulfilled: getVisitsData sorts and caps,
\* searchVisits stores the visits and goes round its loop.
PromiseAllSettles ==
  /\ UNCHANGED notStreamer
  /\ pc = "getVisits"
  /\ IF \E url \in historyItemArray : dueState[url] = "rejected"
     THEN /\ visitsData' = Thrown("rejected")
          /\ lastResult' = Thrown("rejected")
          /\ pc' = "idle"
          /\ UNCHANGED <<streamer, maxVisits, storedVisits, query,
                         visitItems, pages>>
     ELSE /\ \A url \in historyItemArray : dueState[url] = "fulfilled"
          /\ LET result == SortAndCap(visitArray, query.maxResults)
             IN /\ visitsData' = Value(result)
                /\ storedVisits' = storedVisits \o result
                /\ maxVisits' = maxVisits
                /\ SearchVisitsLoop(storedVisits \o result)
  /\ UNCHANGED <<config, gvdLocals>>

----------------------------------------------------------------------------
(* Specification *)

StartTimes == {0, 2}
PageSizes == 1..MaxPageSize

RECURSIVE SubsetsUpTo(_, _)
\* the subsets of S with at most n elements
SubsetsUpTo(S, n) ==
  IF n = 0 THEN {{}}
  ELSE LET smaller == SubsetsUpTo(S, n - 1)
       IN smaller \cup {T \cup {x} : T \in smaller, x \in S}

AllVisits == [url : Urls, visitTime : 1..MaxTime, transition : Transitions]

\* histories: a url is visited at most once in a millisecond
Histories ==
  {h \in SubsetsUpTo(AllVisits, MaxHistory) :
     \A v, w \in h : (v.url = w.url /\ v.visitTime = w.visitTime) => v = w}

\* five visits at t=10..50, consecutive ones on different pages, read with
\* the default window and a page size of 2
ScenarioC ==
  [history |-> {[url |-> UrlXa, visitTime |-> 10, transition |-> "link"],
                [url |-> UrlYp, visitTime |-> 20, transition |-> "link"],
                [url |-> UrlXa, visitTime |-> 30, transition |-> "link"],
                [url |-> UrlYp, visitTime |-> 40, transition |-> "link"],
                [url |-> UrlXa, visitTime |-> 50, transition |-> "link"]},
   startDatetime |-> NewDate(0), endDatetime |-> NewDate(60),
   defaultMaxVisits |-> 2]

\* two visits of one page followed by a visit of another page, read with
\* the default window and a page size of 2
ScenarioAttrition ==
  [history |-> {[url |-> UrlXa, visitTime |-> 3, transition |-> "link"],
                [url |-> UrlXa, visitTime |-> 2, transition |-> "link"],
                [url |-> UrlYp, visitTime |-> 1, transition |-> "link"]},
   startDatetime |-> NewDate(0), endDatetime |-> NewDate(3),
   defaultMaxVisits |-> 2]

\* two visits on different pages, read with the default window and a page
\* size of 3: more is asked for than the history holds
ScenarioRequery ==
  [history |-> {[url |-> UrlXa, visitTime |-> 3, transition |-> "link"],
                [url |-> UrlYp, visitTime |-> 2, transition |-> "link"]},
   startDatetime |-> NewDate(0), endDatetime |-> NewDate(3),
   defaultMaxVisits |-> 3]

Configs ==
  [history : Histories, startDatetime : {NewDate(t) : t \in StartTimes},
   endDatetime : {NewDate(MaxTime)}, defaultMaxVisits : PageSizes]
  \cup {ScenarioC, ScenarioAttrition, ScenarioRequery}

\* the filter has been given nothing
FilterIdle ==
  /\ filterConfig = defaultFilterConfig
  /\ filterInput = <<>>
  /\ filterOnce = NotCalled
  /\ filterTwice = NotCalled
  /\ entries = NotCalled

\* no RateLimited wrapper has been made
RateIdle ==
  /\ msRateLimit = 0
  /\ limitedCallback = FALSE
  /\ startLimited = FALSE
  /\ limited = FALSE
  /\ timers = {}
  /\ now = 0
  /\ calls = <<>>

\* a streamer just constructed with the arguments c
StreamerInit(c) ==
  /\ history = c.history
  /\ startDatetime = c.startDatetime
  /\ endDatetime = c.endDatetime
  /\ defaultMaxVisits = c.defaultMaxVisits
  /\ cursorDatetime = endDatetime
  /\ reachedEnd = FALSE
  /\ pc = "idle"
  /\ maxVisits = defaultMaxVisits
  /\ storedVisits = <<>>
  /\ query = [startTime |-> 0, endTime |-> 0, maxResults |-> 0]
  /\ historyItemArray = {}
  /\ fetchState = <<>>
  /\ dueState = <<>>
  /\ visitArray = <<>>
  /\ visitsData = NotCalled
  /\ visitItems = NotCalled
  /\ pages = <<>>
  /\ lastResult = NotCalled

Init ==
  /\ \E c \in Configs : StreamerInit(c)
  /\ FilterIdle
  /\ RateIdle
  /\ inFlight = <<>>

Next ==
  \/ GetNextExhausted
  \/ GetNextCall
  \/ SearchFindsNothing
  \/ SearchFindsPages
  \/ \E url \in Urls : GetVisitsResolves(url)
  \/ \E url \in Urls : GetVisitsRejects(url)
  \/ PromiseAllSettles

Spec == Init /\ [][Next]_vars

\* a call made to the provider completes: history.search resolves, a
\* history.getVisits resolves or rejects, and the promises made of them settle
ProviderCompletes ==
  \/ SearchFindsNothing
  \/ SearchFindsPages
  \/ \E url \in Urls : GetVisitsResolves(url)
  \/ \E url \in Urls : GetVisitsRejects(url)
  \/ PromiseAllSettles

\* the streamer with a provider that leaves no call unanswered
SpecFair == Spec /\ WF_vars(ProviderCompletes)

----------------------------------------------------------------------------
(* Specification of the noise filter *)

MaxListLen == 3     \* the filter is given lists of at most this length

FilterConfigs ==
  [excludeProtocolChange : BOOLEAN, excludeReloadTransition : BOOLEAN]

\* the visit record of position i of a list sorted most recent first: the
\* first one is at t=300, the next at t=299, and so on
RecordAt(page, i) ==
  combineVisitProperties(
    [url |-> page[1], visitTime |-> 301 - i, transition |-> page[2]])

\* the lists of visit records getVisitsData can return, up to MaxListLen
FilterInputs ==
  UNION {{[i \in 1..n |-> RecordAt(choice[i], i)] :
            choice \in [1..n -> Urls \X Transitions]} : n \in 0..MaxListLen}

\* a streamer nobody calls
StreamerUnused ==
  StreamerInit([history |-> {}, startDatetime |-> defaultStartDatetime,
                endDatetime |-> NewDate(MaxTime), defaultMaxVisits |-> 1])

InitFilter ==
  /\ StreamerUnused
  /\ RateIdle
  /\ inFlight = <<>>
  /\ filterConfig \in FilterConfigs
  /\ filterInput \in FilterInputs
  /\ filterOnce = NotCalled
  /\ filterTwice = NotCalled
  /\ entries = NotCalled

\* processVisitsData(filterInput, filterConfig)
ProcessVisitsData ==
  /\ filterOnce = NotCalled
  /\ filterOnce' = Value(FilterVisits(filterInput, filterConfig))
  /\ entries' = Value(processVisitsData(filterInput, filterConfig))
  /\ UNCHANGED <<config, streamer, pc, maxVisits, storedVisits, query,
                 gvdLocals, visitsData, visitItems, pages, lastResult,
                 filterConfig, filterInput, filterTwice, rateVars, inFlight>>

\* the filter applied to what it kept the first time
FilterAgain ==
  /\ filterOnce # NotCalled
  /\ filterTwice = NotCalled
  /\ filterTwice' = Value(FilterVisits(filterOnce.value, filterConfig))
  /\ UNCHANGED <<config, streamer, pc, maxVisits, storedVisits, query,
                 gvdLocals, visitsData, visitItems, pages, lastResult,
                 filterConfig, filterInput, filterOnce, entries, rateVars,
                 inFlight>>

NextFilter == ProcessVisitsData \/ FilterAgain

SpecFilter == InitFilter /\ [][NextFilter]_vars

----------------------------------------------------------------------------
(* Specification of RateLimited *)

MaxRateLimit == 2   \* msRateLimit is at most this many ms
MaxClock == 3       \* the clock stops after this many rate limit windows
MaxCalls == 3       \* the wrapper is invoked at most this many times

\* the entries of the log that are invocations of the wrapper
Invocations == {k \in 1..Len(calls) : calls[k].ran # "reset"}

\* the wrapper is invoked and lets nothing through: limited is not set and
\* no timer is started
InvokeWrapperNeverLimits ==
  /\ Cardinality(Invocations) < MaxCalls
  /\ IF ~limited
     THEN calls' = Append(calls, [at |-> now, ran |-> "callback"])
     ELSE IF limitedCallback
     THEN calls' = Append(calls, [at |-> now, ran |-> "limitedCallback"])
     ELSE calls' = Append(calls, [at |-> now, ran |-> "nothing"])
  /\ UNCHANGED <<limited, timers>>
  /\ UNCHANGED <<msRateLimit, limitedCallback, startLimited, now>>

\* the function RateLimited returns is invoked
InvokeWrapper ==
  /\ Cardinality(Invocations) < MaxCalls
  /\ IF ~limited
     THEN /\ limited' = TRUE
          /\ timers' = timers \cup {now + msRateLimit}
          /\ calls' = Append(calls, [at |-> now, ran |-> "callback"])
     ELSE IF limitedCallback
     THEN /\ calls' = Append(calls, [at |-> now, ran |-> "limitedCallback"])
          /\ UNCHANGED <<limited, timers>>
     ELSE /\ calls' = Append(calls, [at |-> now, ran |-> "nothing"])
          /\ UNCHANGED <<limited, timers>>
  /\ UNCHANGED <<msRateLimit, limitedCallback, startLimited, now>>

\* a timer set by setTimeout(reset, msRateLimit) fires, not before it is due
ResetFires ==
  /\ \E due \in timers :
       /\ due <= now
       /\ timers' = timers \ {due}
  /\ limited' = FALSE
  /\ calls' = Append(calls, [at |-> now, ran |-> "reset"])
  /\ UNCHANGED <<msRateLimit, limitedCallback, startLimited, now>>

\* time passes: half a rate limit window, or a whole one
ClockAdvances ==
  /\ \E d \in {(msRateLimit + 1) \div 2, msRateLimit} :
       /\ now + d <= MaxClock * msRateLimit
       /\ now' = now + d
  /\ UNCHANGED <<msRateLimit, limitedCallback, startLimited, limited,
                 timers, calls>>

InitRateLimited ==
  /\ StreamerUnused
  /\ FilterIdle
  /\ inFlight = <<>>
  /\ msRateLimit \in 1..MaxRateLimit
  /\ limitedCallback \in BOOLEAN
  /\ startLimited \in BOOLEAN
  /\ limited = startLimited
  /\ timers = {}
  /\ now = 0
  /\ calls = <<>>

notRateLimited ==
  <<config, streamer, pc, maxVisits, storedVisits, query, gvdLocals,
    visitsData, visitItems, pages, lastResult, filterVars, inFlight>>

Invoke == InvokeWrapper /\ UNCHANGED notRateLimited

TimerFires == ResetFires /\ UNCHANGED notRateLimited

TimePasses == ClockAdvances /\ UNCHANGED notRateLimited

NextRateLimited == Invoke \/ TimerFires \/ TimePasses

SpecRateLimited == InitRateLimited /\ [][NextRateLimited]_vars

----------------------------------------------------------------------------
(* Specification of HistoryCatalog: the scroll listener, the rate limited
   addBlock and the getNext calls it leaves pending.  What a pending call
   finds is abstracted to its effect on the streamer. *)

MaxInFlight == 2    \* at most this many getNext calls are pending

\* HistoryCatalog once constructed: a streamer with default arguments, the
\* wrapper loadOnReachedEnd, and the getNext of the first addBlock() pending
InitCatalog ==
  /\ \E h \in Histories :
       StreamerInit([history |-> h, startDatetime |-> defaultStartDatetime,
                     endDatetime |-> NewDate(MaxTime),
                     defaultMaxVisits |-> 100])
  /\ FilterIdle
  /\ msRateLimit = 50
  /\ limitedCallback = FALSE
  /\ startLimited = FALSE
  /\ limited = FALSE
  /\ timers = {}
  /\ now = 0
  /\ calls = <<>>
  /\ inFlight = <<cursorDatetime>>

catalogFrame ==
  <<config, pc, maxVisits, storedVisits, query, gvdLocals, visitsData,
    visitItems, pages, lastResult, filterVars>>

\* addBlock: getNext reads the cursor unless the stream has reached its end
AddBlock ==
  IF reachedEnd THEN UNCHANGED inFlight
  ELSE /\ Len(inFlight) < MaxInFlight
       /\ inFlight' = Append(inFlight, cursorDatetime)

\* a scroll event near the bottom of the container: loadOnReachedEnd()
ScrollNearBottom ==
  /\ InvokeWrapper
  /\ IF ~limited THEN AddBlock ELSE UNCHANGED inFlight
  /\ UNCHANGED <<streamer, catalogFrame>>

\* the visits a getNext call that read the cursor value read can return
InWindow(read) ==
  {v \in history : /\ v.visitTime >= getTime(startDatetime)
                   /\ v.visitTime <= getTime(read)}

\* the i-th pending getNext call settles: with a page, whose last entry
\* moves the cursor; with an empty page, which ends the stream; or, nothing
\* found, with a TypeError
GetNextSettles(i) ==
  /\ i \in 1..Len(inFlight)
  /\ inFlight' = SubSeq(inFlight, 1, i - 1)
                   \o SubSeq(inFlight, i + 1, Len(inFlight))
  /\ \/ /\ InWindow(inFlight[i]) = {}
        /\ UNCHANGED streamer
     \/ \E v \in InWindow(inFlight[i]) :
          /\ cursorDatetime' = NewDate(v.visitTime - 1)
          /\ reachedEnd' =
               (reachedEnd
                  \/ getTime(cursorDatetime') < getTime(startDatetime))
     \/ /\ \E v \in InWindow(inFlight[i]) : v.transition = "reload"
        /\ reachedEnd' = TRUE
        /\ UNCHANGED cursorDatetime
  /\ UNCHANGED <<rateVars, catalogFrame>>

NextCatalog ==
  \/ ScrollNearBottom
  \/ TimerFires
  \/ TimePasses
  \/ \E i \in 1..MaxInFlight : GetNextSettles(i)

SpecCatalog == InitCatalog /\ [][NextCatalog]_vars

----------------------------------------------------------------------------
(* Vocabulary of the properties *)

TimeOf(entry) == getTime(entry.datetime)

RECURSIVE Flatten(_)
\* the pages one after the other, in call order
Flatten(pp) == IF pp = <<>> THEN <<>> ELSE Head(pp) \o Flatten(Tail(pp))

AllEntries == Flatten(pages)

\* the visits of the history from startDatetime up to the time upTo
VisitsUpTo(upTo) ==
  {v \in history : /\ v.visitTime >= getTime(startDatetime)
                   /\ v.visitTime <= upTo}

\* the same visits, most recent first, as the noise filter leaves them
SurvivorsUpTo(upTo) ==
  processVisitsData(
    SortDesc(MapCombineInRange(SetToSeqAsc(VisitsUpTo(upTo)),
                               [startTime |-> getTime(startDatetime),
                                endTime |-> upTo])),
    defaultFilterConfig)

CeilDiv(a, b) == (a + b - 1) \div b

\* a getNext call has returned and gave no page
CallGaveNoPage == pc = "idle" /\ lastResult.kind \in {"null", "throw"}

----------------------------------------------------------------------------
(* Properties *)

\* C1 (as claimed): of two consecutive pages, every entry of the later one
\* is strictly older than every entry of the earlier one.
C1_PagesStrictlyDecreasing ==
  \A k \in 1..(Len(pages) - 1) :
    \A i \in 1..Len(pages[k]), j \in 1..Len(pages[k + 1]) :
      TimeOf(pages[k + 1][j]) < TimeOf(pages[k][i])

\* C2 (as claimed): no visit is returned twice, neither inside a page nor
\* on two pages.
C2_NoVisitReturnedTwice ==
  \A i, j \in 1..Len(AllEntries) :
    i # j => ~(/\ AllEntries[i].url = AllEntries[j].url
               /\ AllEntries[i].datetime = AllEntries[j].datetime)

\* C3 (as claimed): with K visits in the window that the noise filter keeps
\* and page size P, the stream gives ceil(K/P) pages and then null on every
\* call; in scenario C the pages are [50,40], [30,20], [10].
C3_PagesThenNull ==
  LET K == Len(SurvivorsUpTo(getTime(endDatetime)))
      expected == CeilDiv(K, defaultMaxVisits)
      scenarioPages == << <<50, 40>>, <<30, 20>>, <<10>> >>
  IN /\ Len(pages) <= expected
     /\ CallGaveNoPage => (lastResult = Null /\ Len(pages) = expected)
     /\ history = ScenarioC.history =>
          \A k \in 1..Len(pages) :
            /\ k <= Len(scenarioPages)
            /\ [i \in 1..Len(pages[k]) |-> TimeOf(pages[k][i])]
                 = scenarioPages[k]

\* C4 (as claimed): every returned entry lies in the window of the streamer.
C4_EntriesInsideWindow ==
  \A i \in 1..Len(AllEntries) :
    /\ getTime(startDatetime) <= TimeOf(AllEntries[i])
    /\ TimeOf(AllEntries[i]) <= getTime(endDatetime)

\* C5 (as claimed): the entries of every page are in non-increasing
\* datetime order.
C5_PageSortedDescending ==
  \A k \in 1..Len(pages) :
    \A i, j \in 1..Len(pages[k]) :
      i < j => TimeOf(pages[k][i]) >= TimeOf(pages[k][j])

\* C6 (as claimed): when searchVisits gives null or an empty list, getNext
\* marks the stream exhausted and returns null, it does not fail.
C6_NothingFoundEndsStream ==
  (/\ pc = "idle"
   /\ \/ visitItems.kind = "null"
      \/ (visitItems.kind = "value" /\ visitItems.value = <<>>))
  => (reachedEnd /\ lastResult = Null)

\* C7: once reachedEnd is set it stays set, and a getNext call made then
\* returns null at once: it waits for no provider call and leaves the
\* state of the finder alone.
C7_ExhaustedIsTerminal ==
  [][reachedEnd =>
       /\ reachedEnd'
       /\ pc' = "idle"
       /\ lastResult' = Null
       /\ UNCHANGED <<cursorDatetime, query, storedVisits, gvdLocals,
                      visitsData, pages>>]_vars

\* C7 witness: the stream was exhausted by a page that moved the cursor
\* below startDatetime, and a later call has returned null.
C7_Witness ==
  /\ reachedEnd
  /\ pc = "idle"
  /\ lastResult = Null
  /\ visitItems.kind = "value"
  /\ visitItems.value # <<>>

\* C8 (as claimed): when the stream has reported exhaustion, every visit of
\* the window that the noise filter keeps is on some returned page.
C8_NoVisitLost ==
  (pc = "idle" /\ lastResult = Null)
  => \A i \in 1..Len(SurvivorsUpTo(getTime(endDatetime))) :
       \E j \in 1..Len(AllEntries) :
         AllEntries[j] = SurvivorsUpTo(getTime(endDatetime))[i]

\* C9 (as claimed): a page has maxVisits entries whenever at least
\* maxVisits visits that the noise filter keeps were left at or before the
\* cursor the call started from (query.endTime).
C9_FullPageWhenEnoughLeft ==
  (/\ pc = "idle"
   /\ lastResult.kind = "value"
   /\ Len(SurvivorsUpTo(query.endTime)) >= maxVisits)
  => Len(lastResult.value) = maxVisits

\* the pages of the current getVisitsData call whose fetch succeeded
ResolvedPages == {url \in historyItemArray : fetchState[url] = "resolved"}

\* the in-window visits of the pages whose fetch succeeded
VisitsOfResolvedPages ==
  {combineVisitProperties(v) :
     v \in {w \in history : /\ w.url \in ResolvedPages
                            /\ visitInDateRange(w, query)}}

\* C10: a rejected history.getVisits never makes getVisitsData (or getNext)
\* reject; while the fetches of a call are being collected, visitArray holds
\* exactly the in-window visits of the pages fetched so far, once each, and
\* nothing of a failed page; getVisitsData returns a list only when every
\* fetch has settled.
C10_PartialFailureIsolated ==
  /\ visitsData.kind # "throw"
  /\ lastResult # Thrown("rejected")
  /\ pc = "getVisits" =>
       /\ Range(visitArray) = VisitsOfResolvedPages
       /\ Len(visitArray) = Cardinality(VisitsOfResolvedPages)
  /\ (pc # "getVisits" /\ visitsData.kind = "value") =>
       \A url \in historyItemArray : fetchState[url] # "pending"

\* C10 witness: a call over two or more pages has returned visits although
\* the fetch of one page failed.
C10_Witness ==
  /\ pc # "getVisits"
  /\ visitsData.kind = "value"
  /\ visitsData.value # <<>>
  /\ \E u1, u2 \in historyItemArray :
       fetchState[u1] = "rejected" /\ fetchState[u2] = "resolved"

----------------------------------------------------------------------------
(* Properties of the noise filter, under SpecFilter *)

\* the URL without its scheme prefix
SchemeStripped(url) == url.rest

\* the datetimes of the entries processVisitsData returned
SurvivingTimes ==
  {getTime(entries.value[k].datetime) : k \in 1..Len(entries.value)}

\* positions i and i+1 of the input hold http://y.com/p then https://y.com/p
ProtocolPairAt(i) ==
  /\ i + 1 <= Len(filterInput)
  /\ filterInput[i].url = UrlYp
  /\ filterInput[i + 1].url = UrlYps

\* the first record is a reload and reloads are excluded
HeadReloadExcluded(i) ==
  /\ i = 1
  /\ filterConfig.excludeReloadTransition
  /\ filterInput[i].transition = "reload"

\* the record at i comes right after a visit of the same scheme-stripped URL
FollowsSamePage(i) ==
  /\ i > 1
  /\ SchemeStripped(filterInput[i - 1].url) = SchemeStripped(filterInput[i].url)

\* C11 as stated: with excludeProtocolChange true, of two consecutive visits
\* http://y.com/p then https://y.com/p exactly one survives, the more recent.
C11_PairLeavesMoreRecent ==
  (entries # NotCalled /\ filterConfig.excludeProtocolChange) =>
    \A i \in 1..Len(filterInput) :
      ProtocolPairAt(i) =>
        /\ filterInput[i].datetime \in SurvivingTimes
        /\ filterInput[i + 1].datetime \notin SurvivingTimes

\* C11 amended: with excludeProtocolChange true, the older visit of the pair
\* never survives, and the more recent one survives unless it is itself
\* dropped: as a first-position reload when reloads are excluded, or because
\* it follows a visit of the same scheme-stripped URL.
C11_PairOlderDropped ==
  (entries # NotCalled /\ filterConfig.excludeProtocolChange) =>
    \A i \in 1..Len(filterInput) :
      ProtocolPairAt(i) =>
        /\ filterInput[i + 1].datetime \notin SurvivingTimes
        /\ filterInput[i].datetime \in SurvivingTimes
             <=> ~(HeadReloadExcluded(i) \/ FollowsSamePage(i))

\* Scenario B: the pair at t=300 and t=299 was filtered, the first survived
C11_Witness ==
  /\ entries # NotCalled
  /\ filterConfig.excludeProtocolChange
  /\ ProtocolPairAt(1)
  /\ filterInput[1].datetime = 300
  /\ filterInput[2].datetime = 299
  /\ 300 \in SurvivingTimes
  /\ 299 \notin SurvivingTimes

\* C12: with excludeProtocolChange true and reload exclusion off, filtering
\* the filtered list again drops nothing: filter(filter(L)) = filter(L).
C12_FilterIdempotent ==
  (/\ filterTwice # NotCalled
   /\ filterConfig.excludeProtocolChange
   /\ ~filterConfig.excludeReloadTransition)
    => filterTwice = filterOnce

\* a list that lost a record to the first pass and kept two went through the
\* second pass
C12_Witness ==
  /\ filterTwice # NotCalled
  /\ filterConfig.excludeProtocolChange
  /\ ~filterConfig.excludeReloadTransition
  /\ Len(filterOnce.value) < Len(filterInput)
  /\ Len(filterOnce.value) >= 2
  /\ filterInput[1].transition = "reload"

\* the positions the stated rule drops
DroppedPositions ==
  {i \in 1..Len(filterInput) :
     \/ /\ i = 1
        /\ filterConfig.excludeReloadTransition
        /\ filterInput[i].transition = "reload"
     \/ /\ i > 1
        /\ filterConfig.excludeProtocolChange
        /\ SchemeStripped(filterInput[i].url)
             = SchemeStripped(filterInput[i - 1].url)}

KeptPositions == (1..Len(filterInput)) \ DroppedPositions

\* C16: the filter drops the first record iff reloads are excluded and it is
\* a reload, a later record iff protocol changes are excluded and its
\* scheme-stripped URL equals that of its predecessor in the input (dropped
\* or not), and nothing else; the records kept stay in order.
C16_SinglePassRule ==
  entries # NotCalled =>
    /\ Len(entries.value) = Cardinality(KeptPositions)
    /\ \A k \in 1..Len(entries.value) :
         \E i \in KeptPositions :
           /\ Cardinality({j \in KeptPositions : j < i}) = k - 1
           /\ entries.value[k].url = filterInput[i].url
           /\ entries.value[k].title = filterInput[i].title
           /\ getTime(entries.value[k].datetime) = filterInput[i].datetime

\* a first-position reload was dropped, and the record after it was dropped
\* for having the same scheme-stripped URL
C16_Witness ==
  /\ entries # NotCalled
  /\ Len(filterInput) = 3
  /\ DroppedPositions = {1, 2}
  /\ Len(entries.value) = 1
  /\ filterInput[3].transition = "reload"

\* C20: with excludeProtocolChange true, no two adjacent entries of the
\* output have equal scheme-stripped URLs.
C20_NoAdjacentSamePage ==
  (entries # NotCalled /\ filterConfig.excludeProtocolChange) =>
    \A k \in 1..(Len(entries.value) - 1) :
      SchemeStripped(entries.value[k].url)
        # SchemeStripped(entries.value[k + 1].url)

\* two entries came out next to each other that were not neighbours going in
C20_Witness ==
  /\ entries # NotCalled
  /\ filterConfig.excludeProtocolChange
  /\ Len(filterInput) = 3
  /\ Len(entries.value) = 2
  /\ getTime(entries.value[1].datetime) = filterInput[1].datetime
  /\ getTime(entries.value[2].datetime) = filterInput[3].datetime


----------------------------------------------------------------------------
(* Properties of the accumulate loop and of the cursor *)

\* C13: when every provider call completes, every searchVisits call
\* eventually returns, also when getVisitsData returns an empty list.
C13_SearchVisitsReturns == (pc # "idle") ~> (pc = "idle")

\* C14: after a getNext call that returned a page, the cursor is 1 ms before
\* the oldest entry of that page.
C14_CursorBelowOldestOfPage ==
  (pc = "idle" /\ lastResult.kind = "value") =>
    /\ \E k \in 1..Len(lastResult.value) :
         getTime(cursorDatetime) = TimeOf(lastResult.value[k]) - 1
    /\ \A k \in 1..Len(lastResult.value) :
         getTime(cursorDatetime) <= TimeOf(lastResult.value[k]) - 1

\* C15: the cursor moves back in time at every step that returns a page, and
\* no other step moves it: not a call made, not a provider answer, not a
\* call that returns null or throws.
C15_CursorOnlyMovesBack ==
  [][IF pc # "idle" /\ pc' = "idle" /\ lastResult'.kind = "value"
     THEN getTime(cursorDatetime') < getTime(cursorDatetime)
     ELSE cursorDatetime' = cursorDatetime]_vars

\* two pages moved the cursor, then a call returned null
C15_Witness ==
  /\ Len(pages) >= 2
  /\ pc = "idle"
  /\ lastResult = Null
  /\ getTime(cursorDatetime) < getTime(endDatetime) - 1

----------------------------------------------------------------------------
(* Properties of RateLimited, under SpecRateLimited *)

\* was the wrapper limited when entry k of the log was made: the last thing
\* before it was a run of callback, or nothing was and it started limited
LimitedBefore(k) ==
  LET prior == {i \in 1..(k - 1) : calls[i].ran \in {"callback", "reset"}}
  IN IF prior = {} THEN startLimited
     ELSE calls[CHOOSE i \in prior : \A j \in prior : j <= i].ran = "callback"

\* C17: an invocation runs callback iff the wrapper is not limited, that is
\* iff no run of callback came before it since the wrapper was made or its
\* timer last fired; otherwise it runs limitedCallback if there is one and
\* nothing if not; and two runs of callback are at least msRateLimit apart.
C17_LeadingEdgeThrottle ==
  /\ \A k \in Invocations :
       calls[k].ran = IF ~LimitedBefore(k) THEN "callback"
                      ELSE IF limitedCallback THEN "limitedCallback"
                      ELSE "nothing"
  /\ \A i, j \in Invocations :
       (i < j /\ calls[i].ran = "callback" /\ calls[j].ran = "callback")
         => calls[j].at - calls[i].at >= msRateLimit

\* callback ran, an invocation inside the window was dropped, the timer
\* fired, and the next invocation ran callback again
C17_Witness ==
  /\ Len(calls) = 4
  /\ calls[1].ran = "callback"
  /\ calls[2].ran = "nothing"
  /\ calls[2].at < calls[1].at + msRateLimit
  /\ calls[3].ran = "reset"
  /\ calls[4].ran = "callback"

----------------------------------------------------------------------------
(* Properties of HistoryCatalog, under SpecCatalog *)

\* C18: HistoryCatalog never has two getNext calls in flight at the same
\* time, so no two pending calls have read the same cursor value.
C18_OneGetNextInFlight ==
  /\ Len(inFlight) <= 1
  /\ \A i, j \in 1..Len(inFlight) : inFlight[i] = inFlight[j] => i = j

----------------------------------------------------------------------------
(* Properties of getVisitsData *)

\* the orders in which the fetches of the pages S can complete
CompletionOrders(S) ==
  {order \in [1..Cardinality(S) -> S] :
     \A i, j \in 1..Cardinality(S) : order[i] = order[j] => i = j}

RECURSIVE PushedInOrder(_, _)
\* visitArray once the fetches resolved in this order
PushedInOrder(order, q) ==
  IF order = <<>> THEN <<>>
  ELSE ThenPush(Head(order), q) \o PushedInOrder(Tail(order), q)

\* C19: getVisitsData returns what it would have returned had the fetches
\* that resolved completed in any other order.
C19_CompletionOrderIrrelevant ==
  [][(/\ pc = "getVisits"
      /\ pc' # "getVisits"
      /\ \A url \in historyItemArray : dueState[url] = "fulfilled")
     => \A order \in CompletionOrders(
                       {url \in historyItemArray :
                          fetchState[url] = "resolved"}) :
          visitsData' =
            Value(SortAndCap(PushedInOrder(order, query),
                             query.maxResults))]_vars

============================================================================
